---- MODULE Spec2Model ----
(***************************************************************************)
(* PLR calculator (LionartBR/plr_calc).                                    *)
(*                                                                         *)
(*   src/app/calc.py   calcular_plr (calibrated annual/semester formula),  *)
(*                     parse_brl / format_brl (BRL currency text)          *)
(*   src/calc.py       ir_plr_2025, ir_primeira_parcela_2025,              *)
(*                     calcular_plr_caixa_primeira_parcela_2025            *)
(*                                                                         *)
(* Arithmetic.  The Python code computes on binary floating point.  The    *)
(* model computes the same formulas exactly, on scaled integers:           *)
(*   - salaries S are whole reais, profits L_S1 / L_A are thousands of     *)
(*     reais, N is the head count;                                         *)
(*   - every amount of calcular_plr is held in "units" of 1/(W*N) centavo, *)
(*     W = pct_ADD + pct_SOC, so that the division by N and the split      *)
(*     peso_add = pct_ADD / W are exact;                                   *)
(*   - the only quotient that leaves that grid, base * fator of the        *)
(*     proportional reduction, is kept as a mixed number i + f/d.          *)
(* IEEE-754 rounding (differences of about 1e-12) is not represented.      *)
(***************************************************************************)
EXTENDS Integers, Sequences, FiniteSets, TLC

VARIABLES
    pc,     \* position of the current calcular_plr call
    args,   \* its arguments [S, N, L_S1, L_A, regra]
    loc,    \* its local variables computed so far
    ret,    \* the dict it returned, or NoRet
    err,    \* the exception it raised: "none" or "ValueError"
    prev,   \* headline results of the call completed just before, or NoPrev
    brl,    \* the currency text being formatted / parsed
    cx      \* the last call into the Caixa 2025 module (src/calc.py)

varsA == <<pc, args, loc, ret, err, prev>>
vars == <<pc, args, loc, ret, err, prev, brl, cx>>

(***************************************************************************)
(* Bounds of the explored inputs.                                          *)
(***************************************************************************)
MaxS == 3          \* salaries 0, SStep, ..., MaxS * SStep reais
MaxN == 3          \* head counts 0 .. MaxN
MaxLA == 36        \* annual profits -LStep, 0, LStep, ..., MaxLA * LStep
MaxLS1 == 3        \* semester profits -LS1Step, 0, ..., MaxLS1 * LS1Step
MaxRaise == 3      \* a repeated call raises L_A by at most MaxRaise steps

SStep == 7 * 1000          \* reais
LStep == 2 * 5             \* thousands of reais
LS1Step == 6 * 10          \* thousands of reais

Salarios == {SStep * k : k \in 0..MaxS}
Empregados == 0..MaxN
LucrosA == {LStep * k : k \in -1..MaxLA}
LucrosS1 == {LS1Step * k : k \in -1..MaxLS1}
Regras == {"proporcional", "cortar_add_primeiro", "outra"}

(***************************************************************************)
(* PLRConfig defaults, as integers:                                        *)
(*   amounts in centavos; pct_RB_*, pct_global in percent; pct_ADD,        *)
(*   pct_SOC per mille; alpha_S1_eff, beta_A_eff per 100000.               *)
(***************************************************************************)
PLRConfig ==
    [ P_fix_ano     |-> 353293,
      T_RB_ano      |-> 1895248,
      P_fix_adiant  |-> 211976,
      T_RB_adiant   |-> 1137147,
      T_ADD_anual   |-> 733662,
      pct_RB_ano    |-> 90,
      pct_RB_adiant |-> 45,
      pct_ADD       |-> 22,
      pct_SOC       |-> 40,
      pct_global    |-> 15,
      alpha_S1_eff  |-> 3415,
      beta_A_eff    |-> 6414 ]

\* the config the Streamlit app passes: PLRConfig(alpha_S1_eff=0.02915, beta_A_eff=0.06014)
AppConfig == [PLRConfig EXCEPT !.alpha_S1_eff = 2915, !.beta_A_eff = 6014]

Configs == {PLRConfig, AppConfig}

Min(a, b) == IF a <= b THEN a ELSE b
Max(a, b) == IF a >= b THEN a ELSE b

(***************************************************************************)
(* Exact mixed numbers i + f/d (0 <= f < d), for the proportional factor.  *)
(***************************************************************************)
Q(n) == [i |-> n, f |-> 0, d |-> 1]

Norm(i, f, d) == IF f = 0 THEN Q(i) ELSE [i |-> i, f |-> f, d |-> d]

\* x + y; the fractions, when both present, share their denominator
QAdd(x, y) ==
    LET d == IF x.f = 0 THEN y.d ELSE x.d
        s == x.f + y.f
    IN  IF s >= d THEN Norm(x.i + y.i + 1, s - d, d)
                  ELSE Norm(x.i + y.i, s, d)

QNeg(x) == IF x.f = 0 THEN Q(-x.i) ELSE [i |-> -x.i - 1, f |-> x.d - x.f, d |-> x.d]

QSub(x, y) == QAdd(x, QNeg(y))

\* a/b <= c/d for 0 <= a < b, 0 <= c < d, by continued fractions
RECURSIVE FracLeq(_, _, _, _)
FracLeq(a, b, c, d) ==
    IF a = 0 THEN TRUE
    ELSE IF c = 0 THEN FALSE
    ELSE IF b = d THEN a <= c
    ELSE LET qa == b \div a
             qc == d \div c
         IN  IF qa # qc THEN qa > qc
             ELSE FracLeq(d % c, c, b % a, a)

QLeq(x, y) == x.i < y.i \/ (x.i = y.i /\ FracLeq(x.f, x.d, y.f, y.d))

QMin(x, y) == IF QLeq(x, y) THEN x ELSE y
QMax(x, y) == IF QLeq(y, x) THEN x ELSE y

\* a * n / d as a mixed number, for a >= 0, n >= 0, d > 0, two bits of n at a
\* time (no intermediate value exceeds 7 * d)
RECURSIVE MulDiv(_, _, _)
MulDiv(a, n, d) ==
    IF n = 0 THEN Q(0)
    ELSE LET h == MulDiv(a, n \div 4, d)
             s == 4 * h.f + (n % 4) * (a % d)
         IN  Norm(4 * h.i + (n % 4) * (a \div d) + (s \div d), s % d, d)

(***************************************************************************)
(* calcular_plr (src/app/calc.py).  U is the number of units per centavo.  *)
(***************************************************************************)
W(cfg) == cfg.pct_ADD + cfg.pct_SOC

U(cfg, N) == W(cfg) * N

\* _validar_inputs: TRUE when it returns, FALSE when it raises ValueError
validar_inputs_strict(S, N, L_S1, L_A) ==
    ~(S < 0) /\ ~(N <= 0) /\ ~(L_S1 < 0 \/ L_A < 0)

validar_inputs(S, N, L_S1, L_A) ==
    ~(S <= 0) /\ ~(N <= 0) /\ ~(L_S1 < 0 \/ L_A < 0)

\* the tolerance 1e-9 reais = 1e-7 centavo, in units
Eps(cfg, N) == [i |-> 0, f |-> U(cfg, N), d |-> 10^7]

\* x <= y + 1e-9, for x and y on the unit grid
LeqEps(cfg, N, x, y) == QLeq(Q(x), QAdd(Q(y), Eps(cfg, N)))

PLR_A_bruta_minus(RB_ano, ADD_A, SOC_A) == RB_ano + ADD_A - SOC_A

\* PLR_A_bruta = RB_ano + ADD_A + SOC_A
PLR_A_bruta(RB_ano, ADD_A, SOC_A) == RB_ano + ADD_A + SOC_A

\* lines 85-116: the split weights, the basic rule, the calibrated linear shares
Parcelas(cfg, a) ==
    LET u == U(cfg, a.N)
        RB_ano_bruta == (cfg.pct_RB_ano * a.S + cfg.P_fix_ano) * u
        RB_ano == Min(RB_ano_bruta, cfg.T_RB_ano * u)
        RB_S1_bruta == (cfg.pct_RB_adiant * a.S + cfg.P_fix_adiant) * u
        RB_S1 == Min(RB_S1_bruta, cfg.T_RB_adiant * u)
        \* linear_*_cal / W: alpha * L / N centavos is alpha * L * W units
        linear_S1_w == cfg.alpha_S1_eff * a.L_S1
        linear_A_w == cfg.beta_A_eff * a.L_A
        ADD_S1 == linear_S1_w * cfg.pct_ADD
        SOC_S1 == linear_S1_w * (W(cfg) - cfg.pct_ADD)
        ADD_A_teor == cfg.pct_ADD * a.L_A * 100 * W(cfg)
        SOC_A_teor == cfg.pct_SOC * a.L_A * 100 * W(cfg)
        ADD_A_pre == linear_A_w * cfg.pct_ADD
        ADD_A == Min(ADD_A_pre, cfg.T_ADD_anual * u)
        SOC_A == linear_A_w * (W(cfg) - cfg.pct_ADD)
    IN  [ RB_ano_bruta |-> RB_ano_bruta, RB_ano |-> RB_ano,
          RB_S1_bruta |-> RB_S1_bruta, RB_S1 |-> RB_S1,
          ADD_S1 |-> ADD_S1, SOC_S1 |-> SOC_S1,
          ADD_A_teor |-> ADD_A_teor, SOC_A_teor |-> SOC_A_teor,
          ADD_A |-> ADD_A, SOC_A |-> SOC_A,
          PLR_A_bruta |-> PLR_A_bruta(RB_ano, ADD_A, SOC_A),
          T_global |-> cfg.pct_global * a.L_A * 1000 * W(cfg) ]

\* regra "proporcional" (lines 127-136)
ReduzirProporcional(cfg, N, ADD_A, SOC_A, target_linear) ==
    LET base_add == Max(ADD_A, 0)
        base_soc == Max(SOC_A, 0)
        base_total == base_add + base_soc
        \* fator = max(0, min(1, target_linear / base_total)) = fn / base_total
        fn == Max(0, Min(base_total, target_linear))
    IN  IF LeqEps(cfg, N, base_total, 0)
        THEN [ADD_A_cap |-> Q(0), SOC_A_cap |-> Q(0)]
        ELSE [ADD_A_cap |-> MulDiv(base_add, fn, base_total),
              SOC_A_cap |-> MulDiv(base_soc, fn, base_total)]

CortarParentesesTrocados(ADD_A, SOC_A, target_linear) ==
    LET ADD_A_cap == Max(0, Min(ADD_A, target_linear))
    IN  [ADD_A_cap |-> Q(ADD_A_cap),
         SOC_A_cap |-> Q(Max(0, Min(SOC_A, target_linear) - ADD_A_cap))]

\* regra "cortar_add_primeiro" (lines 139-140)
ReduzirCortarAddPrimeiro(ADD_A, SOC_A, target_linear) ==
    LET ADD_A_cap == Max(0, Min(ADD_A, target_linear))
    IN  [ADD_A_cap |-> Q(ADD_A_cap),
         SOC_A_cap |-> Q(Max(0, Min(SOC_A, target_linear - ADD_A_cap)))]

TetoFinalSemMin(PLR_A_uncapped, T_global) == PLR_A_uncapped

\* PLR_A = min(PLR_A_uncapped, T_global)
TetoFinal(PLR_A_uncapped, T_global) == QMin(PLR_A_uncapped, Q(T_global))

\* lines 118-146: TRUE when the else branch raises "regra_reducao_global invalida"
TetoRaises(cfg, a, l) ==
    /\ ~LeqEps(cfg, a.N, l.PLR_A_bruta, l.T_global)
    /\ a.regra \notin {"proporcional", "cortar_add_primeiro"}

\* lines 118-146: the global cap, for a call that does not raise there
TetoGlobal(cfg, a, l) ==
    IF LeqEps(cfg, a.N, l.PLR_A_bruta, l.T_global)
    THEN [ ADD_A_cap |-> Q(l.ADD_A), SOC_A_cap |-> Q(l.SOC_A),
           PLR_A |-> Q(l.PLR_A_bruta), reducao_global |-> Q(0) ]
    ELSE LET target_linear == Max(0, l.T_global - l.RB_ano)
             c == IF a.regra = "proporcional"
                  THEN ReduzirProporcional(cfg, a.N, l.ADD_A, l.SOC_A, target_linear)
                  ELSE ReduzirCortarAddPrimeiro(l.ADD_A, l.SOC_A, target_linear)
             PLR_A_uncapped == QAdd(Q(l.RB_ano), QAdd(c.ADD_A_cap, c.SOC_A_cap))
             PLR_A == TetoFinal(PLR_A_uncapped, l.T_global)
         IN  [ ADD_A_cap |-> c.ADD_A_cap, SOC_A_cap |-> c.SOC_A_cap,
               PLR_A |-> PLR_A,
               reducao_global |-> QSub(Q(l.PLR_A_bruta), PLR_A) ]

\* delta_* = max(0.0, anual - S1)
Delta(anual, S1) == QMax(Q(0), QSub(anual, Q(S1)))

FechamentoPrevSemRB(delta_RB, delta_ADD, delta_SOC) == QAdd(delta_ADD, delta_SOC)

\* fechamento_prev = delta_RB + delta_ADD + delta_SOC
FechamentoPrev(delta_RB, delta_ADD, delta_SOC) ==
    QAdd(delta_RB, QAdd(delta_ADD, delta_SOC))

FecharSemTeto(fechamento_prev, PLR_A, PLR_S1) == QMax(Q(0), fechamento_prev)

\* fechamento = max(0.0, min(fechamento_prev, max(0.0, PLR_A - PLR_S1)))
Fechar(fechamento_prev, PLR_A, PLR_S1) ==
    QMax(Q(0), QMin(fechamento_prev, QMax(Q(0), QSub(PLR_A, Q(PLR_S1)))))

\* lines 149-184: advance, settlement and the returned dict
Resultado(cfg, a, l) ==
    LET PLR_S1 == l.RB_S1 + l.ADD_S1 + l.SOC_S1
        delta_ADD == Delta(l.ADD_A_cap, l.ADD_S1)
        delta_SOC == Delta(l.SOC_A_cap, l.SOC_S1)
        delta_RB == Delta(Q(l.RB_ano), l.RB_S1)
        fechamento_prev == FechamentoPrev(delta_RB, delta_ADD, delta_SOC)
        fechamento == Fechar(fechamento_prev, l.PLR_A, PLR_S1)
    IN  [ S |-> a.S, N |-> a.N, L_S1 |-> a.L_S1, L_A |-> a.L_A,
          cfg |-> cfg, T_global |-> l.T_global,
          RB_ano_bruta |-> l.RB_ano_bruta, RB_ano |-> l.RB_ano,
          RB_S1_bruta |-> l.RB_S1_bruta, RB_S1 |-> l.RB_S1,
          ADD_A_teor |-> l.ADD_A_teor, ADD_A_cap |-> l.ADD_A_cap, ADD_S1 |-> l.ADD_S1,
          SOC_A_teor |-> l.SOC_A_teor, SOC_A_cap |-> l.SOC_A_cap, SOC_S1 |-> l.SOC_S1,
          PLR_A_bruta |-> l.PLR_A_bruta, PLR_A_pos_teto_global |-> l.PLR_A,
          reducao_global_aplicada |-> l.reducao_global,
          PLR_S1 |-> PLR_S1, fechamento_prev |-> fechamento_prev,
          fechamento |-> fechamento,
          adiantamento |-> PLR_S1, total_anual |-> l.PLR_A,
          segunda_parcela |-> fechamento ]

(***************************************************************************)
(* The call as a state machine.                                            *)
(***************************************************************************)
NoArgs == [S |-> 0, N |-> 0, L_S1 |-> 0, L_A |-> 0, cfg |-> PLRConfig,
           regra |-> "proporcional"]
NoLoc == [fase |-> "none"]
NoRet == [fase |-> "none"]
NoPrev == [fase |-> "none"]

ArgsSet ==
    [S : Salarios, N : Empregados, L_S1 : LucrosS1, L_A : LucrosA, cfg : Configs,
     regra : Regras]

\* the record r updated with the fields of s
Merge(r, s) == s @@ r

NoBrl == [fase |-> "none"]
NoCx == [fase |-> "none"]

InitA ==
    /\ pc = "idle"
    /\ args = NoArgs
    /\ loc = NoLoc
    /\ ret = NoRet
    /\ err = "none"
    /\ prev = NoPrev
    /\ brl = NoBrl
    /\ cx = NoCx

\* a caller invokes calcular_plr(S, N, L_S1, L_A, cfg, regra)
Call ==
    /\ pc = "idle"
    /\ \E a \in ArgsSet : args' = a
    /\ pc' = "validar"
    /\ UNCHANGED <<loc, ret, err, prev>>
    /\ UNCHANGED <<brl, cx>>

\* line 82
Validar ==
    /\ pc = "validar"
    /\ IF validar_inputs(args.S, args.N, args.L_S1, args.L_A)
       THEN pc' = "parcelas" /\ err' = err
       ELSE pc' = "raised" /\ err' = "ValueError"
    /\ UNCHANGED <<args, loc, ret, prev>>
    /\ UNCHANGED <<brl, cx>>

\* lines 85-116
CalcParcelas ==
    /\ pc = "parcelas"
    /\ loc' = Merge([fase |-> "parcelas"], Parcelas(args.cfg, args))
    /\ pc' = "teto"
    /\ UNCHANGED <<args, ret, err, prev>>
    /\ UNCHANGED <<brl, cx>>

\* lines 118-146
CalcTeto ==
    /\ pc = "teto"
    /\ IF TetoRaises(args.cfg, args, loc)
       THEN pc' = "raised" /\ err' = "ValueError" /\ loc' = loc
       ELSE /\ pc' = "fechamento"
            /\ err' = err
            /\ loc' = Merge(Merge(loc, TetoGlobal(args.cfg, args, loc)), [fase |-> "teto"])
    /\ UNCHANGED <<args, ret, prev>>
    /\ UNCHANGED <<brl, cx>>

\* lines 149-184
CalcFechamento ==
    /\ pc = "fechamento"
    /\ ret' = Merge([fase |-> "dict"], Resultado(args.cfg, args, loc))
    /\ pc' = "done"
    /\ UNCHANGED <<args, loc, err, prev>>
    /\ UNCHANGED <<brl, cx>>

\* the caller is done with the result or the exception
Retornar ==
    /\ pc \in {"done", "raised"}
    /\ pc' = "idle"
    /\ args' = NoArgs
    /\ loc' = NoLoc
    /\ ret' = NoRet
    /\ err' = "none"
    /\ prev' = NoPrev
    /\ UNCHANGED <<brl, cx>>

\* what the caller keeps of a returned dict to compare the next one with
Resumo == [fase |-> "dict", args |-> args, total_anual |-> ret.total_anual,
           reducao_global_aplicada |-> ret.reducao_global_aplicada,
           ADD_A_cap |-> ret.ADD_A_cap, SOC_A_cap |-> ret.SOC_A_cap]

\* the caller repeats the call under the other reduction rule
OutraRegra ==
    /\ pc = "done"
    /\ \E r \in {"proporcional", "cortar_add_primeiro"} \ {args.regra} :
          args' = [args EXCEPT !.regra = r]
    /\ prev' = Resumo
    /\ pc' = "validar"
    /\ loc' = NoLoc
    /\ ret' = NoRet
    /\ UNCHANGED err
    /\ UNCHANGED <<brl, cx>>

\* the caller repeats the call with a larger annual profit
MaisLucro ==
    /\ pc = "done"
    /\ \E k \in 1..MaxRaise :
          /\ args.L_A + k * LStep \in LucrosA
          /\ args' = [args EXCEPT !.L_A = args.L_A + k * LStep]
    /\ prev' = Resumo
    /\ pc' = "validar"
    /\ loc' = NoLoc
    /\ ret' = NoRet
    /\ UNCHANGED err
    /\ UNCHANGED <<brl, cx>>

NextA ==
    \/ Call \/ Validar \/ CalcParcelas \/ CalcTeto \/ CalcFechamento
    \/ Retornar \/ OutraRegra \/ MaisLucro

SpecA == InitA /\ [][NextA]_vars


(***************************************************************************)
(* Properties of calcular_plr, checked under SpecA.                        *)
(***************************************************************************)
QLess(x, y) == ~QLeq(y, x)
QEq(x, y) == QLeq(x, y) /\ QLeq(y, x)

Reconhecida(r) == r \in {"proporcional", "cortar_add_primeiro"}

Validos(a) == a.S > 0 /\ a.N > 0 /\ a.L_S1 >= 0 /\ a.L_A >= 0

Done == pc = "done" /\ Reconhecida(args.regra)

\* the global cap was exceeded by the gross total: the else branch of line 118 ran
Reduzido == QLess(Q(0), ret.reducao_global_aplicada)

\* prev is the result of the same call but for the field named
MesmoSalvo(campo) ==
    /\ prev.fase = "dict"
    /\ \A k \in DOMAIN args : k # campo => prev.args[k] = args[k]

ResultKeys ==
    { "fase", "S", "N", "L_S1", "L_A", "cfg", "T_global", "RB_ano_bruta", "RB_ano",
      "RB_S1_bruta", "RB_S1", "ADD_A_teor", "ADD_A_cap", "ADD_S1", "SOC_A_teor",
      "SOC_A_cap", "SOC_S1", "PLR_A_bruta", "PLR_A_pos_teto_global",
      "reducao_global_aplicada", "PLR_S1", "fechamento_prev", "fechamento",
      "adiantamento", "total_anual", "segunda_parcela" }

\* C1: for every valid input and both reduction rules, the returned total_anual
\* (= PLR_A_pos_teto_global) is at most T_global = pct_global * L_A / N plus the
\* 1e-9 tolerance.
C1_TetoGlobalRespeitado ==
    Done =>
        /\ QLeq(ret.total_anual, QAdd(Q(ret.T_global), Eps(args.cfg, args.N)))
        /\ ret.PLR_A_pos_teto_global = ret.total_anual

\* a reduced call whose basic-rule amount alone exceeds the global cap
C1_Witness ==
    /\ Done
    /\ Reduzido
    /\ ret.T_global < ret.RB_ano
    /\ QEq(ret.total_anual, Q(ret.T_global))

\* C3: under "cortar_add_primeiro", when the gross total exceeds the global cap,
\* the social amount is cut (SOC_A_cap < SOC_A) only if the additive amount has
\* already been cut to zero (ADD_A_cap = 0).
C3_AdicionalCortadoPrimeiro ==
    (pc = "done" /\ args.regra = "cortar_add_primeiro" /\ Reduzido) =>
        (QLess(ret.SOC_A_cap, Q(loc.SOC_A)) => QEq(ret.ADD_A_cap, Q(0)))

C5_MonotonoNoLucroAnual ==
    (Done /\ MesmoSalvo("L_A") /\ prev.args.L_A <= args.L_A) =>
        QLeq(prev.total_anual, ret.total_anual)

\* the larger profit leaves the reduction branch that the smaller one took
C5_Witness ==
    /\ Done
    /\ MesmoSalvo("L_A")
    /\ prev.args.L_A < args.L_A
    /\ QLess(Q(0), prev.reducao_global_aplicada)
    /\ ~Reduzido
    /\ QLess(prev.total_anual, ret.total_anual)

\* C6: 0 <= fechamento <= max(0, total_anual - adiantamento), and segunda_parcela
\* is that fechamento.
C6_FechamentoLimitado ==
    Done =>
        /\ QLeq(Q(0), ret.fechamento)
        /\ QLeq(ret.fechamento,
                QMax(Q(0), QSub(ret.total_anual, Q(ret.adiantamento))))
        /\ ret.segunda_parcela = ret.fechamento

\* the sum of the component differences is positive while the total is below the advance
C6_Witness ==
    /\ Done
    /\ QLess(Q(0), ret.fechamento_prev)
    /\ QLess(ret.total_anual, Q(ret.adiantamento))
    /\ QEq(ret.fechamento, Q(0))

\* C7: the call raises ValueError at validation, with nothing computed or
\* returned, whenever S <= 0, N <= 0, L_S1 < 0 or L_A < 0; every other call
\* under a recognised rule raises nothing and what it returns is the whole dict.
C7_ValidacaoOuResultadoCompleto ==
    pc # "idle" =>
    /\ ~Validos(args) =>
          /\ pc \in {"validar", "raised"}
          /\ loc = NoLoc /\ ret = NoRet
          /\ (pc = "raised" => err = "ValueError")
    /\ (Validos(args) /\ Reconhecida(args.regra)) =>
          /\ pc # "raised" /\ err = "none"
          /\ (pc = "done" <=> ret # NoRet)
          /\ (ret # NoRet => DOMAIN ret = ResultKeys)

\* a call with a zero salary and otherwise valid arguments has raised
C7_Witness ==
    /\ pc = "raised"
    /\ err = "ValueError"
    /\ args.S = 0 /\ args.N > 0 /\ args.L_S1 >= 0 /\ args.L_A >= 0

MaxCent == 150     \* amounts lie 0 .. MaxCent centavos above a power of ten

Grupos == {1, 2}   \* thousands groups of the larger amounts

\* whole-centavo amounts of either sign, with zero, one and two separators
ValoresBRL ==
    { s * (b + k) : s \in {-1, 1},
                    b \in {0} \cup {10^(3 * g + 2) : g \in Grupos},
                    k \in 0..MaxCent }

\* texts a user types into the salary field
Textos ==
    { <<>>,
      <<"a", "b", "c">>,
      <<"7", "7", "3", "0">>,
      <<"1", ",", "5">>,
      <<"1", ",", "2", ",", "3">>,
      <<"R", " ", "$", " ", "5">>,
      <<" ", "R", "$", "1", ".", "2", "3", "4", ",", "5", "6", " ">>,
      <<"-", "R", "$", " ", "2", ",", "5", "0">> }

Digitos == <<"0", "1", "2", "3", "4", "5", "6", "7", "8", "9">>

DigitChar(d) == Digitos[d + 1]

IsDigit(c) == \E d \in 0..9 : Digitos[d + 1] = c

DigitVal(c) == CHOOSE d \in 0..9 : Digitos[d + 1] = c

\* str(n) for n >= 0
RECURSIVE IntDigits(_)
IntDigits(n) ==
    IF n < 10 THEN <<DigitChar(n)>>
    ELSE Append(IntDigits(n \div 10), DigitChar(n % 10))

\* a "," before every group of three digits, counted from the right
RECURSIVE Grouped(_)
Grouped(ds) ==
    IF Len(ds) <= 3 THEN ds
    ELSE Grouped(SubSeq(ds, 1, Len(ds) - 3)) \o <<",">>
             \o SubSeq(ds, Len(ds) - 2, Len(ds))

\* f"{n:,}"
FormatComma(n) ==
    IF n < 0 THEN <<"-">> \o Grouped(IntDigits(-n)) ELSE Grouped(IntDigits(n))

\* f"{n:02d}" for 0 <= n <= 99, the range of a divmod remainder
Format02d(n) == IF n < 10 THEN <<"0", DigitChar(n)>> ELSE IntDigits(n)

\* s.replace(a, b) for one-character a and b
Replace(s, a, b) == [k \in 1..Len(s) |-> IF s[k] = a THEN b ELSE s[k]]

\* s.replace(a, "") for a one-character a
RECURSIVE Remove(_, _)
Remove(s, a) ==
    IF s = <<>> THEN <<>>
    ELSE IF Head(s) = a THEN Remove(Tail(s), a)
    ELSE <<Head(s)>> \o Remove(Tail(s), a)

\* s.replace("R$", "")
RECURSIVE RemoveRS(_)
RemoveRS(s) ==
    IF Len(s) < 2 THEN s
    ELSE IF s[1] = "R" /\ s[2] = "$" THEN RemoveRS(SubSeq(s, 3, Len(s)))
    ELSE <<Head(s)>> \o RemoveRS(Tail(s))

\* s.strip()
RECURSIVE Strip(_)
Strip(s) ==
    IF s = <<>> THEN s
    ELSE IF Head(s) = " " THEN Strip(Tail(s))
    ELSE IF s[Len(s)] = " " THEN Strip(SubSeq(s, 1, Len(s) - 1))
    ELSE s

\* the number written by a sequence of digits
RECURSIVE NumOf(_)
NumOf(ds) ==
    IF ds = <<>> THEN 0
    ELSE 10 * NumOf(SubSeq(ds, 1, Len(ds) - 1)) + DigitVal(ds[Len(ds)])

\* float(Decimal(s)) for a text of signs, digits and points: the value is
\* num / 10^casas; ok is FALSE where Decimal raises InvalidOperation
DecimalOf(s) ==
    LET signed == s # <<>> /\ s[1] \in {"-", "+"}
        body == IF signed THEN Tail(s) ELSE s
        dots == {k \in 1..Len(body) : body[k] = "."}
        ds == Remove(body, ".")
        valid == /\ Cardinality(dots) <= 1
                 /\ ds # <<>>
                 /\ \A k \in 1..Len(ds) : IsDigit(ds[k])
        casas == IF dots = {} THEN 0 ELSE Len(body) - (CHOOSE k \in dots : TRUE)
    IN  IF ~valid THEN [ok |-> FALSE, num |-> 0, casas |-> 0]
        ELSE [ok |-> TRUE,
              num |-> IF signed /\ s[1] = "-" THEN -NumOf(ds) ELSE NumOf(ds),
              casas |-> casas]

\* format_brl(valor), valor = c / 100 (lines 49-53)
format_brl(c) ==
    LET inteiro == c \div 100      \* divmod(int(round(valor * 100)), 100)
        centavos == c % 100
        s_int == Replace(FormatComma(inteiro), ",", ".")
        s_cent == Format02d(centavos)
    IN  <<"R", "$", " ">> \o s_int \o <<",">> \o s_cent

\* parse_brl(txt) (lines 37-47); ok = FALSE stands for the ValueError
parse_brl(txt) ==
    LET raw == Strip(RemoveRS(Strip(txt)))
        sem_espaco == Remove(raw, " ")
        canonical == Replace(Remove(sem_espaco, "."), ",", ".")
    IN  DecimalOf(canonical)

\* format_brl is applied to an amount
Formatar ==
    /\ brl.fase = "none"
    /\ \E c \in ValoresBRL :
          brl' = [fase |-> "texto", origem |-> "format_brl", valor |-> c,
                  texto |-> format_brl(c)]
    /\ UNCHANGED <<varsA, cx>>

\* a user types a text
Digitar ==
    /\ brl.fase = "none"
    /\ \E t \in Textos :
          brl' = [fase |-> "texto", origem |-> "usuario", valor |-> 0, texto |-> t]
    /\ UNCHANGED <<varsA, cx>>

\* parse_brl is applied to the text
Ler ==
    /\ brl.fase = "texto"
    /\ brl' = Merge(brl, [fase |-> "lido", lido |-> parse_brl(brl.texto)])
    /\ UNCHANGED <<varsA, cx>>

Esquecer ==
    /\ brl.fase = "lido"
    /\ brl' = NoBrl
    /\ UNCHANGED <<varsA, cx>>

NextBRL == Formatar \/ Digitar \/ Ler \/ Esquecer

SpecBRL == InitA /\ [][NextBRL]_vars

\* the parsed amount in centavos, for a text of at most two decimal places
LidoCentavos == brl.lido.num * 10^(2 - brl.lido.casas)

\* C2: for every whole-centavo amount x, negative ones included,
\* parse_brl(format_brl(x)) succeeds and is within one centavo of x.
C2_IdaEVolta ==
    (brl.fase = "lido" /\ brl.origem = "format_brl") =>
        /\ brl.lido.ok
        /\ brl.lido.casas <= 2
        /\ LidoCentavos - brl.valor <= 1
        /\ brl.valor - LidoCentavos <= 1


(***************************************************************************)
(* Caixa 2025 first installment (src/calc.py).                             *)
(* Amounts are whole centavos unless said otherwise; salaries are given in *)
(* tenths of a real so that 90% of a salary is a whole number of centavos. *)
(***************************************************************************)
MaxSB == 10        \* salaries -SBStep, 0, ..., MaxSB * SBStep
MaxMeses == 13     \* months worked -1 .. MaxMeses
MaxMarco == 5      \* prior installments 0, MarcoStep, ..., MaxMarco * MarcoStep
MaxViz == 20       \* amounts within MaxViz centavos of zero and of a bracket limit

SBStep == 2 * 10000            \* tenths of a real
MarcoStep == 35 * 10000        \* centavos

FENABAN_FIXO_2025 == 353293
FENABAN_TETO_RB_2025 == 1895248
FENABAN_ADIC_TETO_2025 == 733662
NUM_EMPREGADOS_2025 == 84000
\* thousands of reais
LUCRO_LIQUIDO_2025 == 6500000

TabelaDeducaoErrada ==
    << [topo |-> FALSE, limite |-> 667755,  aliq |-> 0,   ded |-> 0],
       [topo |-> FALSE, limite |-> 992228,  aliq |-> 75,  ded |-> 50082],
       [topo |-> FALSE, limite |-> 1316700, aliq |-> 150, ded |-> 124489],
       [topo |-> FALSE, limite |-> 1638038, aliq |-> 225, ded |-> 223251],
       [topo |-> TRUE,  limite |-> 0,       aliq |-> 275, ded |-> 305153] >>

\* (limite, aliq, ded): limite and ded in centavos, aliq per mille; topo marks
\* the row whose limit is float("inf")
IR_PLR_TABELA_2025 ==
    << [topo |-> FALSE, limite |-> 667755,  aliq |-> 0,   ded |-> 0],
       [topo |-> FALSE, limite |-> 992228,  aliq |-> 75,  ded |-> 50082],
       [topo |-> FALSE, limite |-> 1316700, aliq |-> 150, ded |-> 124499],
       [topo |-> FALSE, limite |-> 1638038, aliq |-> 225, ded |-> 223251],
       [topo |-> TRUE,  limite |-> 0,       aliq |-> 275, ded |-> 305153] >>

LimitesFinitos ==
    { IR_PLR_TABELA_2025[k].limite :
          k \in {j \in DOMAIN IR_PLR_TABELA_2025 : ~IR_PLR_TABELA_2025[j].topo} }

\* round(n / d, 2 places) for an amount of n/d centavos: the nearest centavo;
\* on an exact tie the binary float lies just below or just above it, so
\* either neighbour can come out
RoundSet(n, d) ==
    LET q == n \div d
        r == n % d
    IN  IF 2 * r < d THEN {q}
        ELSE IF 2 * r > d THEN {q + 1}
        ELSE {q, q + 1}

\* the first row of the table with valor_bruto <= limite
RECURSIVE Faixa(_, _)
Faixa(valor_bruto, k) ==
    IF k > Len(IR_PLR_TABELA_2025) THEN 0
    ELSE IF IR_PLR_TABELA_2025[k].topo \/ valor_bruto <= IR_PLR_TABELA_2025[k].limite
         THEN k
         ELSE Faixa(valor_bruto, k + 1)

\* ir_plr_2025(valor_bruto): the set of values the call can return
ir_plr_2025(valor_bruto) ==
    LET k == Faixa(valor_bruto, 1)
        row == IR_PLR_TABELA_2025[k]
        imp == valor_bruto * row.aliq - row.ded * 1000     \* thousandths of a centavo
    IN  IF k = 0 THEN {0}
        ELSE {Max(0, r) : r \in RoundSet(imp, 1000)}

ir_primeira_parcela_sem_marco(bruto_setembro, bruto_marco_anterior) ==
    ir_plr_2025(bruto_marco_anterior + bruto_setembro)

\* ir_primeira_parcela_2025: IR(marco + setembro) - IR(marco); the two calls
\* of ir_plr_2025 return the same value when given the same argument
ir_primeira_parcela_2025(bruto_setembro, bruto_marco_anterior) ==
    LET total == bruto_marco_anterior + bruto_setembro
    IN  IF total = bruto_marco_anterior
        THEN {Max(0, t - t) : t \in ir_plr_2025(total)}
        ELSE {Max(0, t - m) : t \in ir_plr_2025(total),
                              m \in ir_plr_2025(bruto_marco_anterior)}

RECURSIVE GCD(_, _)
GCD(a, b) == IF b = 0 THEN a ELSE GCD(b, a % b)

\* one per mille of the profit per employee is PerCapitaNum / PerCapitaDen centavos
PerCapitaNum == (LUCRO_LIQUIDO_2025 * 100) \div GCD(LUCRO_LIQUIDO_2025 * 100, NUM_EMPREGADOS_2025)

PerCapitaDen == NUM_EMPREGADOS_2025 \div GCD(LUCRO_LIQUIDO_2025 * 100, NUM_EMPREGADOS_2025)

\* the amounts of the function before rounding are whole multiples of 1/UB centavo
UB == PerCapitaDen * 12

\* EntradaCaixa2025
Entradas ==
    [ salario_base : {SBStep * k : k \in -1..MaxSB} \cup {1, 2, 7},
      meses_trabalhados : -1..MaxMeses,
      plr_bruta_marco_2025 : {MarcoStep * k : k \in 0..MaxMarco}
                             \cup {b + j : b \in LimitesFinitos, j \in {-1, 0, 1}} ]

\* calcular_plr_caixa_primeira_parcela_2025(e): the set of dicts it can return
calcular_plr_caixa_primeira_parcela_2025(e) ==
    LET meses == Max(0, Min(e.meses_trabalhados, 12))          \* prop = meses / 12
        rb_sem_teto == 9 * e.salario_base + FENABAN_FIXO_2025
        rb_fenaban == Min(rb_sem_teto, FENABAN_TETO_RB_2025) * PerCapitaDen * meses
        adicional_unit == 22 * PerCapitaNum                    \* 1/PerCapitaDen centavo
        adicional_unit_capped == Min(adicional_unit, FENABAN_ADIC_TETO_2025 * PerCapitaDen)
        adicional_fenaban == adicional_unit_capped * meses
        plr_social_unit == 40 * PerCapitaNum
        plr_social == plr_social_unit * meses
        total_plr == rb_fenaban + adicional_fenaban + plr_social
        cap_total_3_rbs == 3 * e.salario_base * 10 * UB
        total_pos_teto == Min(total_plr, cap_total_3_rbs)
        \* the dicts returned when round(0.5 * total_pos_teto, 2) is bruto_setembro
        Dicts(bruto_setembro) ==
            { [ fase |-> "dict",
                e |-> e,
                prop |-> meses,
                rb_fenaban |-> rb,
                adicional_fenaban |-> ad,
                plr_social |-> so,
                total_plr_pre_teto |-> pre,
                total_plr_pos_teto |-> pos,
                bruto_primeira_parcela |-> bruto_setembro,
                ir_primeira_parcela |-> ir_setembro,
                liquido_primeira_parcela |-> bruto_setembro - ir_setembro,
                cap_total_3_rbs |-> 3 * e.salario_base * 10 ] :
              rb \in RoundSet(rb_fenaban, UB),
              ad \in RoundSet(adicional_fenaban, UB),
              so \in RoundSet(plr_social, UB),
              pre \in RoundSet(total_plr, UB),
              pos \in RoundSet(total_pos_teto, UB),
              ir_setembro \in ir_primeira_parcela_2025(bruto_setembro,
                                                       e.plr_bruta_marco_2025) }
    IN  UNION { Dicts(b) : b \in RoundSet(total_pos_teto, 2 * UB) }

ValoresIR ==
    (-MaxViz..MaxViz) \cup {b + j : b \in LimitesFinitos, j \in -MaxViz..MaxViz}

\* a caller asks ir_plr_2025 for the tax on an amount
ConsultarIR ==
    /\ cx.fase = "none"
    /\ \E v \in ValoresIR : \E r \in ir_plr_2025(v) :
          cx' = [fase |-> "ir", valor |-> v, imposto |-> r]
    /\ UNCHANGED <<varsA, brl>>

\* and then for the tax on one centavo more
CentavoSeguinte ==
    /\ cx.fase = "ir"
    /\ \E r \in ir_plr_2025(cx.valor + 1) :
          cx' = [fase |-> "ir2", valor |-> cx.valor + 1, imposto |-> r,
                 valor_ant |-> cx.valor, imposto_ant |-> cx.imposto]
    /\ UNCHANGED <<varsA, brl>>

\* a caller computes a first installment
CalcularCaixa ==
    /\ cx.fase = "none"
    /\ \E e \in Entradas : \E r \in calcular_plr_caixa_primeira_parcela_2025(e) :
          cx' = r
    /\ UNCHANGED <<varsA, brl>>

DescartarCx ==
    /\ cx.fase # "none"
    /\ cx' = NoCx
    /\ UNCHANGED <<varsA, brl>>

NextB == ConsultarIR \/ CentavoSeguinte \/ CalcularCaixa \/ DescartarCx

SpecB == InitA /\ [][NextB]_vars


(***************************************************************************)
(* Properties of the Caixa 2025 module, checked under SpecB.               *)
(***************************************************************************)
\* C8: ir_plr_2025 returns 0 for an amount of 0, and at every finite bracket
\* limit b the rounded tax one centavo above b is not lower than the rounded
\* tax at b and exceeds it by at most one centavo.
C8_IRContinuoNosLimites ==
    /\ (cx.fase \in {"ir", "ir2"} /\ cx.valor = 0) => cx.imposto = 0
    /\ (cx.fase = "ir2" /\ cx.valor_ant \in LimitesFinitos) =>
          /\ cx.imposto >= cx.imposto_ant
          /\ cx.imposto - cx.imposto_ant <= 1

\* the tax was asked at the third limit and one centavo above it, and rose
C8_Witness ==
    /\ cx.fase = "ir2"
    /\ cx.valor_ant = IR_PLR_TABELA_2025[3].limite
    /\ cx.valor = cx.valor_ant + 1
    /\ cx.imposto = cx.imposto_ant + 1

\* C10: for a non-negative salary and prior installment, the returned
\* ir_primeira_parcela lies between 0 and bruto_primeira_parcela, so
\* liquido_primeira_parcela lies between 0 and bruto_primeira_parcela.
C10_IRLimitadoAoBruto ==
    (cx.fase = "dict" /\ cx.e.salario_base >= 0 /\ cx.e.plr_bruta_marco_2025 >= 0) =>
        /\ 0 <= cx.ir_primeira_parcela
        /\ cx.ir_primeira_parcela <= cx.bruto_primeira_parcela
        /\ 0 <= cx.liquido_primeira_parcela
        /\ cx.liquido_primeira_parcela <= cx.bruto_primeira_parcela
        /\ cx.liquido_primeira_parcela = cx.bruto_primeira_parcela - cx.ir_primeira_parcela

\* a taxed first installment on top of a prior installment that was itself taxed
C10_Witness ==
    /\ cx.fase = "dict"
    /\ cx.e.salario_base > 0
    /\ cx.e.plr_bruta_marco_2025 > IR_PLR_TABELA_2025[1].limite
    /\ cx.bruto_primeira_parcela > 0
    /\ cx.ir_primeira_parcela > 0
    /\ cx.ir_primeira_parcela < cx.bruto_primeira_parcela

====
